---------------------------- MODULE Spec2Model ----------------------------
(***************************************************************************)
(* Model of the Confluence provisioning script (src/main.py) and of its    *)
(* REST client (src/confluence_client.py).                                 *)
(*                                                                         *)
(*   SpecNorm    the URL normalisation of ConfluenceClient._make_request   *)
(*   SpecClient  one call of a space-permission method of the client       *)
(*   SpecGrant   ensure_read_then_apply run twice against a platform that  *)
(*               remembers the permissions it has granted                  *)
(*   SpecDiscover the discovery loop of setup_spaces over one listing      *)
(*   SpecExec    one call of _make_request, create_group or                *)
(*               add_user_to_group_by_name, answered by the platform       *)
(*   Spec        ConfluenceSetup.run_setup, one remote call per step       *)
(*   SpecLive    Spec, with every step of the run eventually taken         *)
(*                                                                         *)
(* Text that the code inspects character by character (the configured root *)
(* and the endpoint) is a sequence of one-character strings.               *)
(***************************************************************************)
EXTENDS Naturals, Sequences, FiniteSets, TLC

VARIABLES
    \* ---- ConfluenceClient._make_request (SpecNorm)
    npc,        \* "call" before the request, "sent" after the URL is built
    rootForm,   \* how CONFLUENCE_URL ends: what follows the host
    pathForm,   \* what the caller put in front of the resource path
    resource,   \* the resource path X
    url,        \* the URL handed to session.request
    \* ---- one client call (SpecClient)
    cpc,        \* "idle", "returned" or "raised"
    call,       \* the method called and its arguments
    \* ---- one call answered by the platform (SpecExec)
    epc,        \* "idle", "returned" or "raised"
    req,        \* the method called, its arguments and the platform's answers
    ret,        \* the value returned, or the error raised
    \* ---- the discovery loop of setup_spaces (SpecDiscover)
    dpc,        \* "listed" before the loop, "searched" after it
    wanted,     \* cfg: the space configuration searched for
    listed,     \* results: the spaces the listing returned
    adopted,    \* found: <<>> for None, else the one space adopted
    \* ---- the grant sequence run twice (SpecGrant)
    gpc,        \* "read", "extra", "between" or "end"
    grantIn,    \* the (space, subject, extra operations) granted
    round,      \* 1 or 2: the call of the sequence being run
    perms,      \* the permissions the platform holds
    results,    \* per call, the outcome of each single-operation grant
    \* ---- ConfluenceSetup (Spec)
    pc,         \* position in run_setup
    mapping,    \* user_account_mapping.json: email -> accountId
    users,      \* self.users, in insertion order
    groupResult,\* what setup_groups got from create_group
    attempts,   \* the account ids given to add_user_to_group_by_name, in order
    restricted, \* the account ids the platform restricted the page to, in order
    spaces,     \* self.spaces: key -> handle
    content,    \* self.content: the created pages
    idx,        \* index of the current user in the loop being run
    opi,        \* index of the next extra operation of ensure_read_then_apply
    readAdded,  \* what the read grant of ensure_read_then_apply returned
    \* ---- shared
    log         \* the requests issued, oldest first (of the group lookups, which
                \* change nothing, Spec keeps no record)

normVars   == <<npc, rootForm, pathForm, resource, url>>
clientVars == <<cpc, call>>
execVars   == <<epc, req, ret>>
discVars   == <<dpc, wanted, listed, adopted>>
grantVars  == <<gpc, grantIn, round, perms, results>>
setupVars  == <<pc, mapping, users, groupResult, attempts, restricted,
                 spaces, content, idx, opi, readAdded>>
vars       == <<normVars, clientVars, execVars, discVars, grantVars, setupVars, log>>

None == "None"

(***************************************************************************)
(* Bounds                                                                  *)
(***************************************************************************)
\* Segments in a resource path X.
MaxSegs == 2

(***************************************************************************)
(* Character sequences                                                     *)
(***************************************************************************)
Slash   == <<"/">>
Wiki    == <<"/", "w", "i", "k", "i">>
RestApi == <<"/", "r", "e", "s", "t", "/", "a", "p", "i">>
Host    == <<"h", "t", "t", "p", "s", ":", "/", "/", "c", ".", "n", "e", "t">>

\* str.startswith
StartsWith(s, p) == Len(s) >= Len(p) /\ SubSeq(s, 1, Len(p)) = p
\* str.endswith
EndsWith(s, p) == Len(s) >= Len(p) /\ SubSeq(s, Len(s) - Len(p) + 1, Len(s)) = p
\* s[n:]
DropFirst(s, n) == SubSeq(s, n + 1, Len(s))

\* str.rstrip('/')
RECURSIVE RStripSlash(_)
RStripSlash(s) ==
    IF s # <<>> /\ s[Len(s)] = "/" THEN RStripSlash(SubSeq(s, 1, Len(s) - 1)) ELSE s

\* str.count(p): occurrences of p in s (no occurrence of the patterns used here
\* overlaps another).
Count(s, p) == Cardinality({i \in 1..Len(s) : StartsWith(DropFirst(s, i - 1), p)})

(***************************************************************************)
(* ConfluenceClient.__init__ and _make_request: the URL                    *)
(***************************************************************************)
\* __init__: self.base_url = self.base_url.rstrip('/')
InitBaseUrl(root) == RStripSlash(root)

\* _make_request: base_api
BaseApi(base_url) ==
    LET base == RStripSlash(base_url)
    IN  IF EndsWith(base, Wiki) THEN base ELSE base \o Wiki

\* Mutant: the leading /wiki is kept.
DropWikiNever(ep) == ep

\* _make_request: the leading /wiki is dropped only in front of /rest/api/
DropWiki(ep) ==
    IF StartsWith(ep, Wiki \o RestApi \o Slash) THEN DropFirst(ep, Len(Wiki)) ELSE ep

\* _make_request: ep
NormEndpoint(endpoint) ==
    LET e1 == IF ~StartsWith(endpoint, Slash) THEN Slash \o endpoint ELSE endpoint
        e2 == DropWiki(e1)
    IN  IF ~StartsWith(e2, RestApi \o Slash) THEN RestApi \o e2 ELSE e2

\* _make_request: url = base_api + ep
NormUrl(root, endpoint) == BaseApi(InitBaseUrl(root)) \o NormEndpoint(endpoint)

(***************************************************************************)
(* Inputs of the normaliser                                                *)
(***************************************************************************)
Segments ==
    { <<"s", "p", "a", "c", "e">>, <<"g", "r", "o", "u", "p">>,
      <<"w", "i", "k", "i">>, <<"r", "e", "s", "t">>, <<"a", "p", "i">> }

\* The two segments that are names of resources of the platform.
PlainSegments == { <<"s", "p", "a", "c", "e">>, <<"g", "r", "o", "u", "p">> }

RECURSIVE PathsOf(_, _)
PathsOf(segs, n) ==
    IF n = 0 THEN {<<>>}
    ELSE LET shorter == PathsOf(segs, n - 1)
         IN  shorter \cup segs
                     \cup {p \o Slash \o s : p \in shorter \ {<<>>}, s \in segs}

ResourcePaths == PathsOf(Segments, MaxSegs)
PlainPaths    == PathsOf(PlainSegments, MaxSegs) \ {<<>>}

\* CONFLUENCE_URL with or without /wiki, with or without a trailing slash.
RootForms == { <<>>, Slash, Wiki, Wiki \o Slash }

\* What a caller writes in front of X.
CanonicalForm == RestApi \o Slash
EquivalentForms == { CanonicalForm, Wiki \o RestApi \o Slash, Slash, <<>> }
PathForms == EquivalentForms \cup { Wiki \o Slash }

\* X itself carries the API prefix: then '/X' is a form of another resource.
HasApiPrefix(x) ==
    \/ StartsWith(x, DropFirst(RestApi, 1) \o Slash)
    \/ StartsWith(x, DropFirst(Wiki \o RestApi, 1) \o Slash)

InitNorm ==
    /\ npc = "call"
    /\ rootForm \in RootForms
    /\ pathForm \in PathForms
    /\ resource \in ResourcePaths
    /\ url = <<>>

\* _make_request up to session.request(method, url, ...)
MakeRequestUrl ==
    /\ npc = "call"
    /\ url' = NormUrl(Host \o rootForm, pathForm \o resource)
    /\ npc' = "sent"
    /\ UNCHANGED <<rootForm, pathForm, resource>>
    /\ UNCHANGED <<clientVars, execVars, discVars, grantVars, setupVars, log>>

NextNorm == MakeRequestUrl

(***************************************************************************)
(* ConfluenceClient._make_request: the answer and what becomes of it       *)
(***************************************************************************)
Methods == {"GET", "POST", "PUT"}

\* Status codes of an answer.
Statuses == {200, 204, 304, 404, 409, 500}

\* The reason phrase that goes with a status code.
ReasonOf(status) ==
    CASE status = 200 -> "OK"
      [] status = 204 -> "No Content"
      [] status = 304 -> "Not Modified"
      [] status = 404 -> "Not Found"
      [] status = 409 -> "Conflict"
      [] OTHER        -> "Internal Server Error"

\* Response bodies: none, JSON, text that is not JSON, and bodies that hold
\* one of the texts create_group looks for.
EmptyBody    == ""
JsonBody     == "{\"results\": []}"
TextBody     == "<html>Service Unavailable</html>"
ExistsBody   == "{\"message\": \"Group already exists\"}"
ConflictBody == "Conflict: duplicate name"
CodeBody     == "{\"errorCode\": 409}"

Bodies == {EmptyBody, JsonBody, TextBody, ExistsBody, ConflictBody, CodeBody}

\* resp.json() succeeds
IsJson(body) == body \in {JsonBody, ExistsBody, CodeBody}

\* marker in text, for the bodies and reason phrases above
Holds(text, marker) ==
    \/ text = ExistsBody   /\ marker = "Group already exists"
    \/ text = ConflictBody /\ marker = "Conflict"
    \/ text = CodeBody     /\ marker = "409"
    \/ text = "Conflict"   /\ marker = "Conflict"

\* What session.request brings back: a response, or no response at all
\* (connection refused, timeout).
NoAnswer == [answered |-> FALSE, status |-> 0, content |-> EmptyBody]

Answers == {NoAnswer} \cup [answered : {TRUE}, status : Statuses, content : Bodies]

\* resp.raise_for_status(): HTTPError for 4xx and 5xx
RaisesForStatus(status) == status >= 400 /\ status < 600

\* The message of the error _make_request raises, by its parts:
\* "API request failed: {method} {url} -> {e}" and, when the failure has a
\* response, "Response status: {status_code}, body: {text}".
ErrorMessage(method, u, answer) ==
    [method       |-> method,
     url          |-> u,
     cause        |-> IF answer.answered THEN ReasonOf(answer.status)
                                         ELSE "Connection failed",
     has_response |-> answer.answered,
     status       |-> answer.status,
     body         |-> answer.content]

NoError == [method |-> None, url |-> <<>>, cause |-> None, has_response |-> FALSE,
            status |-> 0, body |-> EmptyBody]

\* _make_request after session.request: what it returns, or the error it raises
MakeRequestOutcome(method, u, answer) ==
    IF ~answer.answered \/ RaisesForStatus(answer.status)
    THEN [raised |-> TRUE, type |-> "error", value |-> EmptyBody,
          error |-> ErrorMessage(method, u, answer)]
    ELSE IF answer.content # EmptyBody
         THEN [raised |-> FALSE,
               type   |-> IF IsJson(answer.content) THEN "json" ELSE "text",
               value  |-> answer.content,
               error  |-> NoError]
         ELSE [raised |-> FALSE, type |-> "empty dict", value |-> EmptyBody,
               error |-> NoError]

\* The request as session.request gets it.
SentRequest(method, u) ==
    [kind |-> "request", method |-> method, target |-> u, body |-> <<>>]

(***************************************************************************)
(* ConfluenceClient: space permissions                                     *)
(***************************************************************************)
\* Operations in a list given to add_space_permission.
MaxOps == 2

ReadOp       == [key |-> "read", target |-> "space"]
AdministerOp == [key |-> "administer", target |-> "space"]

\* The ops of add_user_space_write, and write_ops of setup_spaces.
WriteOps ==
    << [key |-> "create", target |-> "page"],
       [key |-> "create", target |-> "blogpost"],
       [key |-> "create", target |-> "comment"],
       [key |-> "create", target |-> "attachment"],
       [key |-> "delete", target |-> "page"] >>

Operations == {ReadOp, AdministerOp} \cup {WriteOps[i] : i \in 1..Len(WriteOps)}

RECURSIVE SeqsUpTo(_, _)
SeqsUpTo(S, n) ==
    IF n = 0 THEN {<<>>}
    ELSE LET shorter == SeqsUpTo(S, n - 1)
         IN  shorter \cup {Append(q, e) : q \in shorter, e \in S}

SpaceKeys    == {"COLLAB", "RESTRICT"}
SubjectTypes == {"user", "group"}
Identifiers  == {"acc-user1", "standard-users"}

\* Mutant: the body of the commented-out add_space_permission, always plural.
PermissionBodyPlural(subject_type, identifier, operations) ==
    [subject    |-> [type |-> subject_type, identifier |-> identifier],
     operations |-> operations]

\* add_space_permission: the request body, singular for one operation
PermissionBody(subject_type, identifier, operations) ==
    IF Len(operations) = 1
    THEN [subject   |-> [type |-> subject_type, identifier |-> identifier],
          operation |-> operations[1]]
    ELSE [subject    |-> [type |-> subject_type, identifier |-> identifier],
          operations |-> operations]

\* add_space_permission: POST /rest/api/space/{space_key}/permission
PermissionRequest(space_key, subject_type, identifier, operations) ==
    [kind   |-> "space_permission",
     method |-> "POST",
     target |-> space_key,
     body   |-> PermissionBody(subject_type, identifier, operations)]

\* The argument 'operations' as a caller passes it: a list of operations, or
\* a value that is no list and holds none.
PyList(items) == [type |-> "list", items |-> items]
NonLists == {[type |-> t, items |-> <<>>] : t \in {"NoneType", "dict", "str"}}

\* Mutant: nothing is checked before the request is built.
ValidOperationsUnchecked(operations) == TRUE

\* add_space_permission: the check made before anything is sent,
\* isinstance(operations, list) and len(operations) != 0
ValidOperations(operations) == operations.type = "list" /\ Len(operations.items) # 0

\* The operations a logged space-permission request carries, and its subject.
ReqOps(r) ==
    IF "operation" \in DOMAIN r.body THEN <<r.body.operation>> ELSE r.body.operations
ReqSubject(r) == r.body.subject.identifier

\* What the platform answers to a request: 2xx, or a failure.
HttpAnswers == {"ok", "error"}

\* A call of add_space_permission, made directly or by a preset.
ClientGrant(fn, space_key, subject_type, identifier, operations, answer) ==
    /\ call' = [fn |-> fn, space_key |-> space_key, subject_type |-> subject_type,
                identifier |-> identifier, operations |-> operations.items,
                passed |-> operations.type,
                error |-> IF ~ValidOperations(operations) THEN "ValueError"
                          ELSE IF answer = "ok" THEN None ELSE "RuntimeError"]
    /\ IF ~ValidOperations(operations)
       THEN /\ cpc' = "raised"
            /\ UNCHANGED log
       ELSE /\ log' = Append(log, PermissionRequest(space_key, subject_type,
                                                    identifier, operations.items))
            /\ cpc' = IF answer = "ok" THEN "returned" ELSE "raised"
    /\ UNCHANGED <<normVars, execVars, discVars, grantVars, setupVars>>

AddSpacePermission ==
    /\ cpc = "idle"
    /\ \E k \in SpaceKeys, t \in SubjectTypes, i \in Identifiers,
          ops \in {PyList(q) : q \in SeqsUpTo(Operations, MaxOps)} \cup NonLists,
          a \in HttpAnswers :
           ClientGrant("add_space_permission", k, t, i, ops, a)

AddUserSpaceAdmin ==
    /\ cpc = "idle"
    /\ \E k \in SpaceKeys, i \in Identifiers, a \in HttpAnswers :
           ClientGrant("add_user_space_admin", k, "user", i, PyList(<<AdministerOp>>), a)

AddUserSpaceRead ==
    /\ cpc = "idle"
    /\ \E k \in SpaceKeys, i \in Identifiers, a \in HttpAnswers :
           ClientGrant("add_user_space_read", k, "user", i, PyList(<<ReadOp>>), a)

AddUserSpaceWrite ==
    /\ cpc = "idle"
    /\ \E k \in SpaceKeys, i \in Identifiers, a \in HttpAnswers :
           ClientGrant("add_user_space_write", k, "user", i, PyList(WriteOps), a)

Presets == {"add_user_space_admin", "add_user_space_read", "add_user_space_write"}

NoCall == [fn |-> None, space_key |-> None, subject_type |-> None,
           identifier |-> None, operations |-> <<>>, passed |-> None, error |-> None]

InitClient ==
    /\ cpc = "idle"
    /\ call = NoCall

NextClient ==
    \/ AddSpacePermission
    \/ AddUserSpaceAdmin
    \/ AddUserSpaceRead
    \/ AddUserSpaceWrite

(***************************************************************************)
(* ConfluenceSetup._add_single_operation_permission                        *)
(***************************************************************************)
\* What the platform answers to a single-operation grant: 2xx, a failure whose
\* text holds 'already exists', or any other failure.
GrantAnswers == {"ok", "exists", "error"}

\* The request of _add_single_operation_permission: a one-item list of operations.
SingleOpRequest(space_key, account_id, op) ==
    PermissionRequest(space_key, "user", account_id, <<op>>)

\* Mutant: 'already exists' is returned as a success.
SingleOpOutcomeAbsorbing(answer) ==
    CASE answer \in {"ok", "exists"} ->
            [ok |-> TRUE,  report |-> "granted", raises |-> FALSE]
      [] OTHER ->
            [ok |-> FALSE, report |-> "failed", raises |-> FALSE]

\* Mutant: a failure that is not 'already exists' is raised again.
SingleOpOutcomeRaising(answer) ==
    CASE answer = "ok" ->
            [ok |-> TRUE,  report |-> "granted", raises |-> FALSE]
      [] answer = "exists" ->
            [ok |-> FALSE, report |-> "already exists, skipping", raises |-> FALSE]
      [] OTHER ->
            [ok |-> FALSE, report |-> "failed", raises |-> TRUE]

\* What _add_single_operation_permission returns and prints for an answer,
\* and whether it lets the failure out.
SingleOpOutcome(answer) ==
    CASE answer = "ok" ->
            [ok |-> TRUE,  report |-> "granted", raises |-> FALSE]
      [] answer = "exists" ->
            [ok |-> FALSE, report |-> "already exists, skipping", raises |-> FALSE]
      [] OTHER ->
            [ok |-> FALSE, report |-> "failed", raises |-> FALSE]

(***************************************************************************)
(* setup_spaces.ensure_read_then_apply                                     *)
(***************************************************************************)
\* Mutant: read is granted after the extra operations.
EnsureSequenceReadLast(extra_ops) == extra_ops \o <<ReadOp>>

\* The operations ensure_read_then_apply grants, in the order it grants them:
\* read_op, then each of extra_ops.
EnsureSequence(extra_ops) == <<ReadOp>> \o extra_ops

(***************************************************************************)
(* ensure_read_then_apply called twice with the same arguments, against a  *)
(* platform that holds the permissions it has granted (SpecGrant)          *)
(***************************************************************************)
\* Extra operations in the list given to ensure_read_then_apply.
MaxExtra == 2

ExtraOperations == {AdministerOp, WriteOps[1], WriteOps[5]}

GrantSubject == "acc-user1"

Perm(space_key, account_id, op) == <<space_key, account_id, op>>

\* The platform grants what the subject does not hold and answers 'already
\* exists' for what it holds; any request may fail for another reason.
PlatformAnswers(held, space_key, account_id, op) ==
    IF Perm(space_key, account_id, op) \in held THEN {"exists", "error"}
                                               ELSE {"ok", "error"}

PlatformAfter(held, space_key, account_id, op, answer) ==
    IF answer = "ok" THEN held \cup {Perm(space_key, account_id, op)} ELSE held

GrantOps == EnsureSequence(grantIn.extra)

InitGrant ==
    /\ gpc = "read"
    /\ round = 1
    /\ grantIn \in [space : SpaceKeys, subject : {GrantSubject},
                    extra : SeqsUpTo(ExtraOperations, MaxExtra)]
    /\ perms \in SUBSET {Perm(grantIn.space, grantIn.subject, GrantOps[i]) :
                            i \in 1..Len(GrantOps)}
    /\ results = <<<<>>, <<>>>>
    /\ opi = 1
    /\ readAdded = FALSE

\* What the two calls leave alone.
GrantOnly ==
    UNCHANGED <<normVars, clientVars, execVars, discVars,
                pc, mapping, users, groupResult, attempts, restricted,
                spaces, content, idx>>

\* One _add_single_operation_permission of the sequence.
GrantOne(op, answer) ==
    /\ log' = Append(log, SingleOpRequest(grantIn.space, grantIn.subject, op))
    /\ perms' = PlatformAfter(perms, grantIn.space, grantIn.subject, op, answer)
    /\ results' = [results EXCEPT ![round] =
                      Append(@, [op |-> op, answer |-> answer] @@ SingleOpOutcome(answer))]

\* Where the sequence stands once its operation number i was issued: an
\* exception ends the try block of ensure_read_then_apply.
GrantAfter(i, answer) ==
    IF i >= Len(GrantOps) \/ SingleOpOutcome(answer).raises
    THEN (IF round = 1 THEN "between" ELSE "end")
    ELSE "extra"

\* ensure_read_then_apply: 1) ensure read
GrantRead ==
    /\ gpc = "read"
    /\ \E a \in PlatformAnswers(perms, grantIn.space, grantIn.subject, GrantOps[opi]) :
          /\ GrantOne(GrantOps[opi], a)
          /\ readAdded' = SingleOpOutcome(a).ok
          /\ gpc' = GrantAfter(opi, a)
    /\ opi' = opi + 1
    /\ UNCHANGED <<grantIn, round>>
    /\ GrantOnly

\* ensure_read_then_apply: the loop over extra_ops, in either branch
GrantExtra ==
    /\ gpc = "extra"
    /\ \/ /\ readAdded
          /\ \E a \in PlatformAnswers(perms, grantIn.space, grantIn.subject,
                                      GrantOps[opi]) :
                GrantOne(GrantOps[opi], a) /\ gpc' = GrantAfter(opi, a)
       \/ /\ ~readAdded
          /\ \E a \in PlatformAnswers(perms, grantIn.space, grantIn.subject,
                                      GrantOps[opi]) :
                GrantOne(GrantOps[opi], a) /\ gpc' = GrantAfter(opi, a)
    /\ opi' = opi + 1
    /\ UNCHANGED <<grantIn, round, readAdded>>
    /\ GrantOnly

\* The caller grants the same (space, subject, operations) again.
GrantAgain ==
    /\ gpc = "between"
    /\ round' = 2
    /\ gpc' = "read"
    /\ opi' = 1
    /\ UNCHANGED <<grantIn, perms, results, readAdded, log>>
    /\ GrantOnly

NextGrant ==
    \/ GrantRead
    \/ GrantExtra
    \/ GrantAgain

(***************************************************************************)
(* ConfluenceSetup: configuration                                          *)
(***************************************************************************)
\* self.user_configs
UserConfigs ==
    << [username |-> "merveille", email |-> "mmnjong@gmail.com", is_admin |-> TRUE],
       [username |-> "user1", email |-> "user1@example.com", is_admin |-> FALSE],
       [username |-> "user2", email |-> "user2@example.com", is_admin |-> FALSE],
       [username |-> "user3", email |-> "user3@example.com", is_admin |-> FALSE],
       [username |-> "user4", email |-> "user4@example.com", is_admin |-> FALSE] >>

Emails == {UserConfigs[i].email : i \in 1..Len(UserConfigs)}

\* self.group_name
GroupName == "standard-users"

\* space_configs of setup_spaces
SpaceConfigs ==
    << [key |-> "COLLAB",   name |-> "Collaborative Workspace"],
       [key |-> "RESTRICT", name |-> "Restricted Workspace"] >>

\* title of setup_content
PageTitle == "Project Kickoff: Collaboration Page"

(***************************************************************************)
(* The platform and the mapping file, as the run finds them                *)
(***************************************************************************)
\* The account id the platform knows each person by.
PlatformAccount ==
    [e \in Emails |->
        CASE e = "mmnjong@gmail.com" -> "acc-admin"
          [] e = "user1@example.com" -> "acc-user1"
          [] e = "user2@example.com" -> "acc-user2"
          [] e = "user3@example.com" -> "acc-user3"
          [] OTHER                   -> "acc-user4"]

\* user_account_mapping.json: an entry is an account id, or is absent or empty.
MappingData ==
    {[e \in Emails |-> IF e \in S THEN PlatformAccount[e] ELSE ""] : S \in SUBSET Emails}

NoMappingFile == [present |-> FALSE, data |-> [e \in Emails |-> ""]]

MappingFiles == {[present |-> TRUE, data |-> d] : d \in MappingData} \cup {NoMappingFile}

\* Spaces the listing GET /rest/api/space?limit=200 may hold.
ListedSpaces ==
    { [key |-> "COLLAB",   name |-> "Collaborative Workspace"],
      [key |-> "collab",   name |-> "Team Space"],
      [key |-> "TEAM",     name |-> "collaborative workspace"],
      [key |-> "RESTRICT", name |-> "Restricted Workspace"],
      [key |-> "VAULT",    name |-> "RESTRICTED WORKSPACE"],
      [key |-> "",         name |-> "Documentation"] }

\* Spaces in one listing.
MaxListing == 2

Listings == SeqsUpTo(ListedSpaces, MaxListing)

\* str.upper and str.lower on the keys and names above.
Upper(s) ==
    CASE s \in {"COLLAB", "collab"} -> "COLLAB"
      [] s = "TEAM"     -> "TEAM"
      [] s = "RESTRICT" -> "RESTRICT"
      [] s = "VAULT"    -> "VAULT"
      [] OTHER          -> s

Lower(s) ==
    CASE s \in {"Collaborative Workspace", "collaborative workspace"}
                        -> "collaborative workspace"
      [] s \in {"Restricted Workspace", "RESTRICTED WORKSPACE"}
                        -> "restricted workspace"
      [] s = "Team Space"    -> "team space"
      [] s = "Documentation" -> "documentation"
      [] OTHER               -> s

(***************************************************************************)
(* ConfluenceSetup.setup_users                                             *)
(***************************************************************************)
\* Mutant: a loaded user is known by the email, not by the mapped account id.
LoadUsersByEmail(data) ==
    LET found == SelectSeq(UserConfigs, LAMBDA cfg : data[cfg.email] # "")
    IN  [i \in 1..Len(found) |->
            [accountId |-> found[i].email,
             email     |-> found[i].email,
             isAdmin   |-> found[i].is_admin,
             username  |-> found[i].username]]

\* Mutant: every configured user is loaded, with or without an entry.
LoadUsersAll(data) ==
    [i \in 1..Len(UserConfigs) |->
        [accountId |-> data[UserConfigs[i].email],
         email     |-> UserConfigs[i].email,
         isAdmin   |-> UserConfigs[i].is_admin,
         username  |-> UserConfigs[i].username]]

\* The counter 'found' of setup_users and the report 'Users loaded: found/len'.
LoadedReport(data) ==
    [found |-> Cardinality({i \in 1..Len(UserConfigs) : data[UserConfigs[i].email] # ""}),
     of    |-> Len(UserConfigs)]

\* The loop over self.user_configs: the users whose entry is truthy, in order.
LoadUsers(data) ==
    LET found == SelectSeq(UserConfigs, LAMBDA cfg : data[cfg.email] # "")
    IN  [i \in 1..Len(found) |->
            [accountId |-> data[found[i].email],
             email     |-> found[i].email,
             isAdmin   |-> found[i].is_admin,
             username  |-> found[i].username]]

\* standard_users and admin_user, as setup_groups, setup_spaces and
\* setup_content compute them.
StandardUsers == SelectSeq(users, LAMBDA u : ~u.isAdmin)
AdminUsers    == SelectSeq(users, LAMBDA u : u.isAdmin)
HasAdmin      == Len(AdminUsers) > 0
AdminUser     == AdminUsers[1]

\* What run_setup leaves alone.
SetupOnly == UNCHANGED <<normVars, clientVars, execVars, discVars, grantVars>>

\* setup_users. A missing file is asked for once; the second read decides.
SetupUsers ==
    /\ pc = "setup_users"
    /\ \E m \in (IF mapping.present THEN {mapping} ELSE MappingFiles) :
          /\ mapping' = m
          /\ IF m.present
             THEN /\ users' = LoadUsers(m.data)
                  /\ pc' = "create_group"
             ELSE /\ users' = users
                  /\ pc' = "exit"
    /\ UNCHANGED <<groupResult, attempts, restricted, spaces, content, idx, opi,
                   readAdded, log>>
    /\ SetupOnly

(***************************************************************************)
(* ConfluenceSetup.setup_groups                                            *)
(***************************************************************************)
\* create_group: POST /rest/api/group
GroupEndpoint == RestApi \o Slash \o <<"g", "r", "o", "u", "p">>
GroupUrl      == NormUrl(Host, GroupEndpoint)

\* The answers create_group may get.
CreateGroupAnswers == Answers

\* The texts create_group looks for in str(e).
ConflictMarkers == {"409", "Conflict", "Group already exists"}

\* marker in str(e), e being the error _make_request raised: the text holds
\* the cause and, when the failure has a response, its status code and body.
ErrorHolds(err, marker) ==
    \/ Holds(err.cause, marker)
    \/ err.has_response /\ err.status = 409 /\ marker = "409"
    \/ err.has_response /\ Holds(err.body, marker)

\* Mutant: only the status code 409 is taken for a conflict.
IsConflictByStatus(err) == err.has_response /\ err.status = 409

\* create_group: '409' in txt or 'Conflict' in txt or 'Group already exists' in txt
IsConflict(err) == \E m \in ConflictMarkers : ErrorHolds(err, m)

\* create_group: what the caller gets for an answer of the platform
CreateGroupResult(answer) ==
    LET out == MakeRequestOutcome("POST", GroupUrl, answer)
    IN  IF ~out.raised THEN "created"
        ELSE IF IsConflict(out.error) THEN "status 409"
        ELSE "raised"

\* The answer as the platform meant it: the group was created, the create
\* failed and the failure says the group exists, or it failed otherwise.
AnswerClass(answer) ==
    IF answer.answered /\ answer.status < 400 THEN "success"
    ELSE IF answer.answered
            /\ (answer.status = 409
                  \/ answer.content \in {ExistsBody, ConflictBody, CodeBody})
         THEN "conflict"
         ELSE "failure"

NoGroupResult == [answer |-> None, result |-> None]

\* Mutant: setup_groups lets a failure of create_group out.
AfterCreateGroupUncaught(result) ==
    IF result = "raised" THEN "exit"
    ELSE IF Len(StandardUsers) = 0 THEN "create_space" ELSE "add_to_group"

\* setup_groups after create_group: whatever it returned or raised, on to
\* the standard users.
AfterCreateGroup(result) ==
    IF Len(StandardUsers) = 0 THEN "create_space" ELSE "add_to_group"

\* get_group_id: the lookups made and the id found, for the answers of the
\* picker and of the direct lookup.
PickerAnswers == {"match", "nomatch", "error"}
DirectAnswers == {"match", "match without id", "nomatch", "error"}

PickerRequest ==
    [kind |-> "group_picker", method |-> "GET", target |-> GroupName, body |-> <<>>]
DirectRequest ==
    [kind |-> "group_lookup", method |-> "GET", target |-> GroupName, body |-> <<>>]

GetGroupId(picker, direct) ==
    CASE picker = "match" -> [requests |-> <<PickerRequest>>, id |-> "group-id"]
      [] picker = "error" -> [requests |-> <<PickerRequest>>, id |-> None]
      [] OTHER            -> [requests |-> <<PickerRequest, DirectRequest>>,
                              id |-> IF direct = "match" THEN "group-id" ELSE None]

\* add_user_to_group_by_groupid: POST /rest/api/group/userByGroupId
MemberRequest(group_id, account_id) ==
    [kind |-> "group_member", method |-> "POST", target |-> group_id,
     body |-> [accountId |-> account_id]]

\* add_user_to_group_by_name: the lookups it makes, the membership request it
\* issues when the group was found, and how it ends.
AddUserToGroupByName(picker, direct, member, account_id) ==
    LET g == GetGroupId(picker, direct)
    IN  IF g.id = None
        THEN [lookups |-> g.requests, posts |-> <<>>, ends |-> "ValueError"]
        ELSE [lookups |-> g.requests,
              posts   |-> <<MemberRequest(g.id, account_id)>>,
              ends    |-> IF member = "ok" THEN "returned" ELSE "raised"]

GroupCreateRequest ==
    [kind |-> "group_create", method |-> "POST", target |-> GroupName,
     body |-> [name |-> GroupName]]

\* setup_groups: create the group
CreateGroup ==
    /\ pc = "create_group"
    /\ log' = Append(log, GroupCreateRequest)
    /\ \E a \in CreateGroupAnswers :
          /\ groupResult' = [answer |-> AnswerClass(a), result |-> CreateGroupResult(a)]
          /\ pc' = AfterCreateGroup(CreateGroupResult(a))
    /\ idx' = 1
    /\ UNCHANGED <<mapping, users, attempts, restricted, spaces, content, opi, readAdded>>
    /\ SetupOnly

\* Mutant: the loop over standard_users ends at the first call that fails.
MoreMembersUnlessFailed(i, ends) == ends = "returned" /\ i < Len(StandardUsers)

\* setup_groups: the call of turn number i sits in a try of its own, so
\* however it ends the loop goes on while a standard user is left
MoreMembers(i, ends) == i < Len(StandardUsers)

\* setup_groups: one turn of the loop over standard_users
AddUserToGroup ==
    /\ pc = "add_to_group"
    /\ attempts' = Append(attempts, StandardUsers[idx].accountId)
    /\ \E p \in PickerAnswers, d \in DirectAnswers, a \in HttpAnswers :
          LET r == AddUserToGroupByName(p, d, a, StandardUsers[idx].accountId)
          IN  /\ log' = log \o r.posts
              /\ IF MoreMembers(idx, r.ends)
                 THEN /\ idx' = idx + 1
                      /\ pc' = pc
                 ELSE /\ idx' = 1
                      /\ pc' = "create_space"
    /\ UNCHANGED <<mapping, users, groupResult, restricted, spaces, content, opi, readAdded>>
    /\ SetupOnly

(***************************************************************************)
(* ConfluenceSetup.setup_spaces: create or discover                        *)
(***************************************************************************)
\* The space a successful POST /rest/api/space returns.
CreatedSpace(cfg) == [key |-> cfg.key, name |-> cfg.name]

\* The test the discovery loop makes on one listed space.
KeyMatches(s, cfg)  == Upper(s.key) = Upper(cfg.key)
NameMatches(s, cfg) == Lower(s.name) = Lower(cfg.name)
Matches(s, cfg)     == KeyMatches(s, cfg) \/ NameMatches(s, cfg)

\* The discovery loop: the first listed space that passes the test.
Discover(listing, cfg) ==
    LET hits == {i \in 1..Len(listing) : Matches(listing[i], cfg)}
    IN  IF hits = {} THEN <<>>
        ELSE <<listing[CHOOSE i \in hits : \A j \in hits : i <= j]>>

InitDiscover ==
    /\ dpc = "listed"
    /\ wanted \in {SpaceConfigs[i] : i \in 1..Len(SpaceConfigs)}
    /\ listed \in Listings
    /\ adopted = <<>>

\* The loop over results, on its own.
SearchListing ==
    /\ dpc = "listed"
    /\ adopted' = Discover(listed, wanted)
    /\ dpc' = "searched"
    /\ UNCHANGED <<wanted, listed>>
    /\ UNCHANGED <<normVars, clientVars, execVars, grantVars, setupVars, log>>

NextDiscover == SearchListing

\* self.spaces[key] = handle
Record(dict, key, handle) ==
    [k \in DOMAIN dict \cup {key} |-> IF k = key THEN handle ELSE dict[k]]

SpaceCreateRequest(cfg) ==
    [kind |-> "space_create", method |-> "POST", target |-> cfg.key,
     body |-> [key |-> cfg.key, name |-> cfg.name]]

SpaceListRequest(cfg) ==
    [kind |-> "space_list", method |-> "GET", target |-> cfg.key, body |-> <<>>]

\* Mutant: the read-only grants on RESTRICT are made whether or not an admin
\* user was loaded.
RestrictEntryReadersAnyway(sp) ==
    IF "RESTRICT" \in DOMAIN sp
    THEN (IF HasAdmin THEN "restrict_admin" ELSE "restrict_read")
    ELSE "create_page"

\* Where setup_spaces goes when it reaches the RESTRICT grants.
RestrictEntry(sp) ==
    IF "RESTRICT" \in DOMAIN sp /\ HasAdmin THEN "restrict_admin" ELSE "create_page"

\* Mutant: the COLLAB grants are made without looking for the space.
GrantsEntryUnguarded(sp) ==
    IF Len(StandardUsers) < 1 THEN "create_page" ELSE "collab_admin"

\* Where setup_spaces goes once both spaces were handled.
GrantsEntry(sp) ==
    IF Len(StandardUsers) < 1 THEN "create_page"
    ELSE IF "COLLAB" \in DOMAIN sp THEN "collab_admin"
    ELSE RestrictEntry(sp)

\* Mutant: the loop over space_configs ends after its first turn.
MoreSpacesNever(i) == FALSE

\* for cfg in space_configs: a configuration is left after turn number i
MoreSpaces(i) == i < Len(SpaceConfigs)

\* One turn of the loop over space_configs, the exits of which are: created;
\* create failed and the listing failed; create failed and the listing holds
\* no list; create failed and the listing was searched.
SpaceTurn(cfg, sp, lg) ==
    /\ spaces' = sp
    /\ log' = lg
    /\ IF MoreSpaces(idx)
       THEN /\ idx' = idx + 1
            /\ pc' = pc
       ELSE /\ idx' = 1
            /\ pc' = GrantsEntry(sp)
    /\ opi' = 1
    /\ UNCHANGED <<mapping, users, groupResult, attempts, restricted, content, readAdded>>
    /\ SetupOnly

CreateSpace ==
    /\ pc = "create_space"
    /\ LET cfg == SpaceConfigs[idx]
           created == Append(log, SpaceCreateRequest(cfg))
           searched == Append(created, SpaceListRequest(cfg))
       IN  \/ SpaceTurn(cfg, Record(spaces, cfg.key, CreatedSpace(cfg)), created)
           \/ SpaceTurn(cfg, spaces, searched)
           \/ \E listing \in Listings :
                 LET found == Discover(listing, cfg)
                 IN  SpaceTurn(cfg,
                               IF found # <<>> THEN Record(spaces, cfg.key, found[1])
                                               ELSE spaces,
                               searched)

(***************************************************************************)
(* ConfluenceSetup.setup_spaces: permissions                               *)
(***************************************************************************)
\* Mutant: the writers of COLLAB are made administrators as well.
EnsureTaskAllAdmins ==
    CASE pc \in {"collab_admin", "collab_writer"} ->
            [space |-> "COLLAB", subject |-> StandardUsers[idx].accountId,
             extra |-> <<AdministerOp>>]
      [] OTHER ->
            [space |-> "RESTRICT", subject |-> AdminUser.accountId,
             extra |-> <<AdministerOp>>]

\* The call of ensure_read_then_apply made at each position.
EnsureTask ==
    CASE pc = "collab_admin" ->
            [space |-> "COLLAB", subject |-> StandardUsers[1].accountId,
             extra |-> <<AdministerOp>>]
      [] pc = "collab_writer" ->
            [space |-> "COLLAB", subject |-> StandardUsers[idx].accountId,
             extra |-> WriteOps]
      [] OTHER ->
            [space |-> "RESTRICT", subject |-> AdminUser.accountId,
             extra |-> <<AdministerOp>>]

\* Where setup_spaces goes after a call of ensure_read_then_apply.
AfterEnsure ==
    CASE pc = "collab_admin" ->
            IF Len(StandardUsers) > 1 THEN [pc |-> "collab_writer", idx |-> 2]
            ELSE [pc |-> RestrictEntry(spaces), idx |-> 1]
      [] pc = "collab_writer" ->
            IF idx < Len(StandardUsers) THEN [pc |-> "collab_writer", idx |-> idx + 1]
            ELSE [pc |-> RestrictEntry(spaces), idx |-> 1]
      [] OTHER -> [pc |-> "restrict_read", idx |-> 1]

EnsurePositions == {"collab_admin", "collab_writer", "restrict_admin"}

\* One _add_single_operation_permission of ensure_read_then_apply; an
\* exception would end the try block, and with it the call.
EnsureOne(answer) ==
    LET task == EnsureTask
        ops  == EnsureSequence(task.extra)
    IN  /\ log' = Append(log, SingleOpRequest(task.space, task.subject, ops[opi]))
        /\ IF opi < Len(ops) /\ ~SingleOpOutcome(answer).raises
           THEN /\ opi' = opi + 1
                /\ UNCHANGED <<pc, idx>>
           ELSE /\ opi' = 1
                /\ pc' = AfterEnsure.pc
                /\ idx' = AfterEnsure.idx

\* ensure_read_then_apply: 1) ensure read
EnsureRead ==
    /\ pc \in EnsurePositions
    /\ opi = 1
    /\ \E a \in GrantAnswers :
          /\ EnsureOne(a)
          /\ readAdded' = SingleOpOutcome(a).ok
    /\ UNCHANGED <<mapping, users, groupResult, attempts, restricted, spaces, content>>
    /\ SetupOnly

\* ensure_read_then_apply: the loop over extra_ops when read was added
EnsureExtraAfterRead ==
    /\ pc \in EnsurePositions
    /\ opi > 1
    /\ readAdded
    /\ \E a \in GrantAnswers : EnsureOne(a)
    /\ UNCHANGED <<mapping, users, groupResult, attempts, restricted, spaces, content, readAdded>>
    /\ SetupOnly

\* ensure_read_then_apply: the same loop when read existed or failed
EnsureExtraAnyway ==
    /\ pc \in EnsurePositions
    /\ opi > 1
    /\ ~readAdded
    /\ \E a \in GrantAnswers : EnsureOne(a)
    /\ UNCHANGED <<mapping, users, groupResult, attempts, restricted, spaces, content, readAdded>>
    /\ SetupOnly

\* RESTRICT: one turn of the loop over standard_users, read only
RestrictRead ==
    /\ pc = "restrict_read"
    /\ \E a \in GrantAnswers :
          log' = Append(log, SingleOpRequest("RESTRICT", StandardUsers[idx].accountId,
                                             ReadOp))
    /\ IF idx < Len(StandardUsers)
       THEN /\ idx' = idx + 1
            /\ pc' = pc
       ELSE /\ idx' = 1
            /\ pc' = "create_page"
    /\ UNCHANGED <<mapping, users, groupResult, attempts, restricted, spaces, content, opi, readAdded>>
    /\ SetupOnly

(***************************************************************************)
(* ConfluenceSetup.setup_content                                           *)
(***************************************************************************)
PageRequest ==
    [kind |-> "page_create", method |-> "POST", target |-> "COLLAB",
     body |-> [type |-> "page", title |-> PageTitle, space |-> [key |-> "COLLAB"]]]

\* The page a successful POST /rest/api/content returns.
CreatedPage == [id |-> "page-1", title |-> PageTitle]

\* add_content_restriction: PUT .../restriction/byOperation/{operation}/user
RestrictionRequest(content_id, operation, account_id) ==
    [kind |-> "content_restriction", method |-> "PUT", target |-> content_id,
     body |-> [operation |-> operation, accountId |-> account_id]]

\* Mutant: the target user is restricted to before the administrator.
RestrictionSubjectsTargetFirst == <<StandardUsers[1].accountId, AdminUser.accountId>>

\* The subjects setup_content restricts the page to, in the order of its calls.
RestrictionSubjects == <<AdminUser.accountId, StandardUsers[1].accountId>>

\* setup_content up to the choice of the subjects
CreatePage ==
    /\ pc = "create_page"
    /\ \/ /\ "COLLAB" \notin DOMAIN spaces
          /\ pc' = "summary"
          /\ UNCHANGED <<content, log>>
       \/ /\ "COLLAB" \in DOMAIN spaces
          /\ log' = Append(log, PageRequest)
          /\ \/ /\ content' = Record(content, PageTitle, CreatedPage)
                /\ pc' = IF Len(StandardUsers) = 0 \/ ~HasAdmin
                         THEN "summary" ELSE "restrict_page"
             \/ /\ pc' = "summary"
                /\ UNCHANGED content
    /\ idx' = 1
    /\ UNCHANGED <<mapping, users, groupResult, attempts, restricted, spaces, opi, readAdded>>
    /\ SetupOnly

\* Mutant: each add_content_restriction sits in a try of its own.
MoreRestrictionsAnyway(i, answer) == i < Len(RestrictionSubjects)

\* setup_content: both calls sit in one try, so the call after number i is
\* made only when number i returned
MoreRestrictions(i, answer) == answer = "ok" /\ i < Len(RestrictionSubjects)

\* setup_content: one add_content_restriction; a failure ends the try block
RestrictPage ==
    /\ pc = "restrict_page"
    /\ log' = Append(log, RestrictionRequest(content[PageTitle].id, "read",
                                             RestrictionSubjects[idx]))
    /\ \E a \in HttpAnswers :
          /\ restricted' = IF a = "ok" THEN Append(restricted, RestrictionSubjects[idx])
                                       ELSE restricted
          /\ IF MoreRestrictions(idx, a)
             THEN /\ idx' = idx + 1
                  /\ pc' = pc
             ELSE /\ idx' = 1
                  /\ pc' = "summary"
    /\ UNCHANGED <<mapping, users, groupResult, attempts, spaces, content, opi, readAdded>>
    /\ SetupOnly

\* run_setup: the summary
Summary ==
    /\ pc = "summary"
    /\ pc' = "done"
    /\ UNCHANGED <<mapping, users, groupResult, attempts, restricted, spaces, content, idx, opi, readAdded, log>>
    /\ SetupOnly

(***************************************************************************)
(* One call answered by the platform (SpecExec)                            *)
(***************************************************************************)
\* Endpoints as callers write them, for the resource 'group'.
ExecEndpoints ==
    { GroupEndpoint, Wiki \o GroupEndpoint, DropFirst(GroupEndpoint, Len(RestApi)) }

NoRequest == [fn |-> None, method |-> None, endpoint |-> <<>>, answer |-> NoAnswer,
              picker |-> None, direct |-> None, member |-> None, account_id |-> None]

NoReturn == [raised |-> FALSE, type |-> None, value |-> EmptyBody, error |-> NoError]

InitExec ==
    /\ epc = "idle"
    /\ req = NoRequest
    /\ ret = NoReturn

\* What a call of the client leaves alone.
ExecOnly == UNCHANGED <<normVars, clientVars, discVars, grantVars, setupVars>>

\* _make_request(method, endpoint): one session.request, then the outcome
MakeRequest ==
    /\ epc = "idle"
    /\ \E m \in Methods, ep \in ExecEndpoints, a \in Answers :
          LET out == MakeRequestOutcome(m, NormUrl(Host, ep), a)
          IN  /\ req' = [NoRequest EXCEPT !.fn = "_make_request", !.method = m,
                                          !.endpoint = ep, !.answer = a]
              /\ log' = Append(log, SentRequest(m, NormUrl(Host, ep)))
              /\ ret' = out
              /\ epc' = IF out.raised THEN "raised" ELSE "returned"
    /\ ExecOnly

\* create_group(group_name)
CreateGroupCall ==
    /\ epc = "idle"
    /\ \E a \in CreateGroupAnswers :
          LET out == MakeRequestOutcome("POST", GroupUrl, a)
              res == CreateGroupResult(a)
          IN  /\ req' = [NoRequest EXCEPT !.fn = "create_group", !.method = "POST",
                                          !.endpoint = GroupEndpoint, !.answer = a]
              /\ log' = Append(log, SentRequest("POST", GroupUrl))
              /\ ret' = CASE res = "created"    -> out
                           [] res = "status 409" ->
                                 [raised |-> FALSE, type |-> "status 409",
                                  value |-> "Group already exists", error |-> NoError]
                           [] OTHER -> out
              /\ epc' = IF res = "raised" THEN "raised" ELSE "returned"
    /\ ExecOnly

\* add_user_to_group_by_name(group_name, account_id)
AddUserToGroupByNameCall ==
    /\ epc = "idle"
    /\ \E p \in PickerAnswers, d \in DirectAnswers, a \in HttpAnswers,
          acct \in {PlatformAccount[e] : e \in Emails} :
          LET r == AddUserToGroupByName(p, d, a, acct)
          IN  /\ req' = [NoRequest EXCEPT !.fn = "add_user_to_group_by_name",
                                          !.picker = p, !.direct = d, !.member = a,
                                          !.account_id = acct]
              /\ log' = log \o r.lookups \o r.posts
              /\ ret' = [NoReturn EXCEPT !.raised = (r.ends # "returned"),
                                         !.type = r.ends]
              /\ epc' = IF r.ends = "returned" THEN "returned" ELSE "raised"
    /\ ExecOnly

NextExec ==
    \/ MakeRequest
    \/ CreateGroupCall
    \/ AddUserToGroupByNameCall

(***************************************************************************)
(* Specifications                                                          *)
(***************************************************************************)
\* The values of the variables a specification does not use.
IdleNorm   == npc = "sent" /\ rootForm = <<>> /\ pathForm = <<>> /\ resource = <<>>
                /\ url = <<>>
IdleClient == cpc = "returned" /\ call = NoCall
IdleDisc   == dpc = "searched" /\ wanted = SpaceConfigs[1] /\ listed = <<>>
                /\ adopted = <<>>
IdleGrant  == gpc = "end" /\ round = 2 /\ perms = {} /\ results = <<<<>>, <<>>>>
                /\ grantIn = [space |-> "COLLAB", subject |-> GrantSubject, extra |-> <<>>]
IdleSetup  == pc = "done" /\ mapping = NoMappingFile /\ users = <<>> /\ spaces = <<>>
                /\ content = <<>> /\ idx = 1 /\ groupResult = NoGroupResult
                /\ attempts = <<>> /\ restricted = <<>>
IdleExec   == epc = "returned" /\ req = NoRequest /\ ret = NoReturn
IdleEnsure == opi = 1 /\ readAdded = FALSE

\* ConfluenceSetup.__init__, and the mapping file as run_setup will find it
InitSetup ==
    /\ pc = "setup_users"
    /\ mapping \in MappingFiles
    /\ users = <<>>
    /\ groupResult = NoGroupResult
    /\ attempts = <<>>
    /\ restricted = <<>>
    /\ spaces = <<>>
    /\ content = <<>>
    /\ idx = 1
    /\ opi = 1
    /\ readAdded = FALSE

Init ==
    InitSetup /\ IdleNorm /\ IdleClient /\ IdleExec /\ IdleDisc /\ IdleGrant /\ log = <<>>

Next ==
    \/ SetupUsers
    \/ CreateGroup
    \/ AddUserToGroup
    \/ CreateSpace
    \/ EnsureRead
    \/ EnsureExtraAfterRead
    \/ EnsureExtraAnyway
    \/ RestrictRead
    \/ CreatePage
    \/ RestrictPage
    \/ Summary

Spec == Init /\ [][Next]_vars

\* The run is one thread and every remote call returns or raises (the
\* requests carry a timeout), so a step that can be taken is taken.
SpecLive == Spec /\ WF_vars(Next)

NormInit ==
    /\ InitNorm
    /\ IdleClient /\ IdleExec /\ IdleDisc /\ IdleGrant /\ IdleSetup /\ IdleEnsure
    /\ log = <<>>

SpecNorm == NormInit /\ [][NextNorm]_vars

ClientInit ==
    /\ InitClient
    /\ IdleNorm /\ IdleExec /\ IdleDisc /\ IdleGrant /\ IdleSetup /\ IdleEnsure
    /\ log = <<>>

SpecClient == ClientInit /\ [][NextClient]_vars

GrantInit ==
    InitGrant /\ IdleNorm /\ IdleClient /\ IdleExec /\ IdleDisc /\ IdleSetup /\ log = <<>>

SpecGrant == GrantInit /\ [][NextGrant]_vars

DiscoverInit ==
    /\ InitDiscover
    /\ IdleNorm /\ IdleClient /\ IdleExec /\ IdleGrant /\ IdleSetup /\ IdleEnsure
    /\ log = <<>>

SpecDiscover == DiscoverInit /\ [][NextDiscover]_vars

ExecInit ==
    /\ InitExec
    /\ IdleNorm /\ IdleClient /\ IdleDisc /\ IdleGrant /\ IdleSetup /\ IdleEnsure
    /\ log = <<>>

SpecExec == ExecInit /\ [][NextExec]_vars

(***************************************************************************)
(* Properties                                                              *)
(***************************************************************************)
IsGrant(r)       == r.kind = "space_permission"
IsRestriction(r) == r.kind = "content_restriction"
GrantsRead(r)    == \E k \in 1..Len(ReqOps(r)) : ReqOps(r)[k] = ReadOp
GrantsOther(r)   == \E k \in 1..Len(ReqOps(r)) : ReqOps(r)[k] # ReadOp
SamePair(r, q)   == r.target = q.target /\ ReqSubject(r) = ReqSubject(q)

\* C1 (Spec): every grant request that carries an operation other than read
\* comes after a grant request for read on the same space and subject.
C1_ReadBeforeOther ==
    \A j \in 1..Len(log) :
        (IsGrant(log[j]) /\ GrantsOther(log[j])) =>
            \E i \in 1..(j - 1) :
                /\ IsGrant(log[i])
                /\ SamePair(log[i], log[j])
                /\ GrantsRead(log[i])
                /\ ~GrantsOther(log[i])

\* C1 witness: a finished run that granted a write operation on COLLAB and
\* administer on RESTRICT.
C1_Witness ==
    /\ pc = "done"
    /\ \E j \in 1..Len(log) :
          IsGrant(log[j]) /\ log[j].target = "COLLAB" /\ ReqOps(log[j]) = <<WriteOps[5]>>
    /\ \E j \in 1..Len(log) :
          IsGrant(log[j]) /\ log[j].target = "RESTRICT"
                          /\ ReqOps(log[j]) = <<AdministerOp>>

\* The calls of the sequence that have returned.
RoundsOver == CASE gpc = "end" -> {1, 2} [] gpc = "between" -> {1} [] OTHER -> {}

C3_PerOperationIsolation ==
    LET n1 == Len(grantIn.extra) + 1
        expected == <<ReadOp>> \o grantIn.extra
    IN  /\ \A i \in 1..Len(log) :
              /\ IsGrant(log[i])
              /\ DOMAIN log[i].body = {"subject", "operation"}
              /\ log[i].body.operation = expected[((i - 1) % n1) + 1]
              /\ log[i].target = grantIn.space
              /\ ReqSubject(log[i]) = grantIn.subject
        /\ gpc = "between" => Len(log) = n1
        /\ gpc = "end" => Len(log) = 2 * n1
        /\ (gpc \in {"read", "extra"} /\ round = 1) => Len(log) = opi - 1
        /\ (gpc \in {"read", "extra"} /\ round = 2) => Len(log) = n1 + opi - 1

\* C3 witness: a call of three operations whose read and first extra
\* operation failed and whose last operation was still issued.
C3_Witness ==
    /\ gpc = "between"
    /\ Len(grantIn.extra) = 2
    /\ results[1][1].answer = "error"
    /\ results[1][2].answer = "error"
    /\ Len(log) = 3

\* C4 as stated (Spec): the handle recorded for a space key has that key (the
\* keys compared as the code compares them, without regard to case).
C4_HandleKeyIsK ==
    \A i \in 1..Len(SpaceConfigs) :
        SpaceConfigs[i].key \in DOMAIN spaces =>
            KeyMatches(spaces[SpaceConfigs[i].key], SpaceConfigs[i])

\* C5 as stated (SpecDiscover): when the listing holds a space whose key is the
\* wanted key, the space adopted has that key, wherever it stands in the
\* listing (the keys compared as the code compares them).
C5_KeyMatchFirst ==
    (dpc = "searched" /\ \E i \in 1..Len(listed) : KeyMatches(listed[i], wanted)) =>
        (adopted # <<>> /\ KeyMatches(adopted[1], wanted))

\* The URL <root without /wiki>/wiki/rest/api/X.
CanonicalUrl == Host \o Wiki \o RestApi \o Slash \o resource

\* C6 (SpecNorm): for a resource path X that does not itself begin with the
\* API prefix, the forms '/rest/api/X', '/wiki/rest/api/X', '/X' and 'X', under
\* each form of the root, give the URL <root>/wiki/rest/api/X; and the
\* canonical path '/rest/api/X' is sent as it was given.
C6_NormalizerEquivalence ==
    npc = "sent" =>
        /\ (pathForm \in EquivalentForms /\ ~HasApiPrefix(resource)) =>
              url = CanonicalUrl
        /\ pathForm = CanonicalForm =>
              url = Host \o Wiki \o pathForm \o resource

\* C6 witness: the bare form 'space/group' under a root ending in '/wiki/'.
C6_Witness ==
    /\ npc = "sent"
    /\ pathForm = <<>>
    /\ rootForm = Wiki \o Slash
    /\ resource = <<"s", "p", "a", "c", "e", "/", "g", "r", "o", "u", "p">>
    /\ url = CanonicalUrl

\* C7 as stated (SpecNorm): for every form of the path, '/wiki/X' among them,
\* the URL holds '/wiki' once and '/rest/api' once, as <root>/wiki/rest/api/X.
C7_SegmentsExactlyOnce ==
    (npc = "sent" /\ resource \in PlainPaths) =>
        /\ Count(url, Wiki) = 1
        /\ Count(url, RestApi) = 1
        /\ url = CanonicalUrl

\* C8 (SpecClient): a request built from one operation carries 'operation'
\* and no 'operations'; one built from two or more carries 'operations', all
\* of them in order, and no 'operation'.
C8_BodyShape ==
    (cpc # "idle" /\ Len(call.operations) >= 1) =>
        /\ Len(log) = 1
        /\ IsGrant(log[1])
        /\ Len(call.operations) = 1 =>
              /\ DOMAIN log[1].body = {"subject", "operation"}
              /\ log[1].body.operation = call.operations[1]
        /\ Len(call.operations) >= 2 =>
              /\ DOMAIN log[1].body = {"subject", "operations"}
              /\ log[1].body.operations = call.operations

\* C8 witness: add_space_permission was called with one operation.
C8_Witness ==
    /\ cpc = "returned"
    /\ call.fn = "add_space_permission"
    /\ call.operations = <<AdministerOp>>
    /\ "operation" \in DOMAIN log[1].body

\* C9 as stated (SpecClient): a preset issues read alone first and then each
\* of its other operations as a request of its own.
C9_PresetsSequenced ==
    (cpc # "idle" /\ call.fn \in Presets) =>
        /\ Len(log) >= 1
        /\ ReqOps(log[1]) = <<ReadOp>>
        /\ \A i \in 1..Len(log) : Len(ReqOps(log[i])) = 1

\* The account id of the configured administrator, from the mapping.
AdminAccount == mapping.data[UserConfigs[1].email]

\* C10 (Spec): the first restriction request for a page names the
\* administrator, and a request naming anyone else comes after it.
C10_AdminRestrictedFirst ==
    \A j \in 1..Len(log) :
        IsRestriction(log[j]) =>
            /\ log[j].body.accountId # ""
            /\ \/ log[j].body.accountId = AdminAccount
               \/ \E i \in 1..(j - 1) :
                     /\ IsRestriction(log[i])
                     /\ log[i].target = log[j].target
                     /\ log[i].body.accountId = AdminAccount
            /\ (\A i \in 1..(j - 1) :
                   ~(IsRestriction(log[i]) /\ log[i].target = log[j].target))
                  => log[j].body.accountId = AdminAccount

\* C10 witness: a finished run that restricted the page to the administrator
\* and then to the target user.
C10_Witness ==
    /\ pc = "done"
    /\ \E i, j \in 1..Len(log) :
          /\ i < j
          /\ IsRestriction(log[i]) /\ log[i].body.accountId = AdminAccount
          /\ IsRestriction(log[j]) /\ log[j].body.accountId = "acc-user1"

\* The requests of a kind in the log, by their positions.
Positions(kind) == {i \in 1..Len(log) : log[i].kind = kind}
GrantsOn(key)   == {i \in Positions("space_permission") : log[i].target = key}

ConfigOf(key) == CHOOSE cfg \in {SpaceConfigs[i] : i \in 1..Len(SpaceConfigs)} : cfg.key = key

\* The create of the space was tried.
Tried(key) == \E i \in 1..Len(log) : log[i] = SpaceCreateRequest(ConfigOf(key))

\* The turn of the space is over and left no handle: the create failed, and
\* the listing failed, held no list or held no match.
Unresolved(key) == Tried(key) /\ key \notin DOMAIN spaces

\* The grants setup_spaces makes on a space it has a handle for.
GrantsDue(key) ==
    /\ key \in DOMAIN spaces
    /\ Len(StandardUsers) >= 1
    /\ key = "RESTRICT" => HasAdmin

\* C11 (Spec): a space whose create failed and whose discovery found nothing
\* has no handle and is never granted on (COLLAB: nor is the page created or
\* restricted); the listing was asked for; the other space is still created
\* or discovered and granted on, and the run does not abort.
C11_UnresolvedIsLocal ==
    \A key \in SpaceKeys : Unresolved(key) =>
        LET other == CHOOSE o \in SpaceKeys : o # key
        IN  /\ GrantsOn(key) = {}
            /\ \E i \in Positions("space_list") : log[i] = SpaceListRequest(ConfigOf(key))
            /\ key = "COLLAB" =>
                  /\ Positions("page_create") = {}
                  /\ Positions("content_restriction") = {}
                  /\ content = <<>>
            /\ pc # "exit"
            /\ pc \notin {"create_space", "setup_users", "create_group", "add_to_group"}
                  => Tried(other)
            /\ (pc = "done" /\ GrantsDue(other)) => GrantsOn(other) # {}

\* C11 witness: a finished run that found no COLLAB space, recorded RESTRICT
\* and granted administer on it.
C11_Witness ==
    /\ pc = "done"
    /\ Unresolved("COLLAB")
    /\ "RESTRICT" \in DOMAIN spaces
    /\ Len(StandardUsers) = 4
    /\ \E i \in GrantsOn("RESTRICT") : ReqOps(log[i]) = <<AdministerOp>>

\* C12 as stated (SpecExec): add_user_to_group_by_name asks the picker
\* first; whenever the picker yields no match, the direct lookup is made;
\* the group is unresolved only when both lookups were made and neither
\* yielded it, and then the call fails and no membership request is issued.
C12_TwoStageFallback ==
    (epc # "idle" /\ req.fn = "add_user_to_group_by_name") =>
        LET asked(r)   == \E i \in 1..Len(log) : log[i] = r
            unresolved == ret.type = "ValueError"
        IN  /\ log[1] = PickerRequest
            /\ req.picker # "match" => asked(DirectRequest)
            /\ unresolved => (asked(PickerRequest) /\ asked(DirectRequest))
            /\ unresolved => (epc = "raised" /\ Positions("group_member") = {})

\* C13 (Spec): a grant comes after the create of each configured space, and
\* after every listing asked for; a content restriction comes after every
\* grant of the run and after the page creation, which succeeded.
C13_PhaseOrder ==
    /\ \A g \in Positions("space_permission") :
          /\ \A k \in 1..Len(SpaceConfigs) :
                \E c \in 1..(g - 1) : log[c] = SpaceCreateRequest(SpaceConfigs[k])
          /\ \A l \in Positions("space_list") : l < g
          /\ pc \notin {"setup_users", "create_group", "add_to_group", "create_space"}
    /\ \A r \in Positions("content_restriction") :
          /\ \A g \in Positions("space_permission") \cup Positions("space_create")
                      \cup Positions("space_list") : g < r
          /\ \E c \in 1..(r - 1) : log[c] = PageRequest
          /\ PageTitle \in DOMAIN content
          /\ log[r].target = content[PageTitle].id
          /\ pc \in {"restrict_page", "summary", "done"}
    /\ pc \in EnsurePositions \cup {"restrict_read"} => Positions("page_create") = {}

\* C13 witness: a finished run that created COLLAB, discovered RESTRICT after
\* a failed create, granted on both and restricted the page.
C13_Witness ==
    /\ pc = "done"
    /\ \E l \in Positions("space_list") : log[l] = SpaceListRequest(SpaceConfigs[2])
    /\ GrantsOn("COLLAB") # {}
    /\ GrantsOn("RESTRICT") # {}
    /\ Cardinality(Positions("content_restriction")) = 2

\* The phase of run_setup a position belongs to.
Phase(p) ==
    CASE p = "setup_users"                       -> 1
      [] p \in {"create_group", "add_to_group"}  -> 2
      [] p \in {"create_space", "restrict_read"} \cup EnsurePositions -> 3
      [] p \in {"create_page", "restrict_page"}  -> 4
      [] p = "summary"                           -> 5
      [] OTHER                                   -> 6

\* C14 (SpecLive): once the mapping is loaded the run never aborts, whatever
\* the remote calls answer; it goes through the groups, spaces and content
\* phases in that order, each of them entered, and ends with the summary.
C14_ContinueAndComplete ==
    /\ [](pc = "exit" => (~mapping.present /\ log = <<>>))
    /\ [][pc' # "exit" => (Phase(pc') >= Phase(pc) /\ Phase(pc') <= Phase(pc) + 1)]_vars
    /\ [][pc' = "done" => pc = "summary"]_vars
    /\ (pc = "create_group") ~> (pc = "create_space")
    /\ (pc = "create_space") ~> (pc = "create_page")
    /\ (pc = "create_page") ~> (pc = "summary")
    /\ (pc = "summary") ~> (pc = "done")

\* C14 witness: a finished run in which the create of the group was
\* raised, a grant failed, and the page could not be created.
C14_Witness ==
    /\ pc = "done"
    /\ groupResult.result = "raised"
    /\ Positions("space_permission") # {}
    /\ Positions("page_create") # {}
    /\ content = <<>>

\* The configured users that lack an entry in the mapping, and those that
\* have one.
Lacking == {i \in 1..Len(UserConfigs) : mapping.data[UserConfigs[i].email] = ""}
Mapped  == (1..Len(UserConfigs)) \ Lacking

\* The subject of a grant, a restriction or a membership request.
SubjectOf(r) ==
    IF r.kind = "space_permission" THEN ReqSubject(r) ELSE r.body.accountId
SubjectRequests ==
    Positions("space_permission") \cup Positions("content_restriction")
        \cup Positions("group_member")

\* C15 (Spec): with N of the M configured users lacking an entry, loading
\* the users aborts nothing, loads exactly the M - N users that have an entry
\* (reported as M - N of M), and every later request names a loaded user.
C15_PartialMapping ==
    (mapping.present /\ pc # "setup_users") =>
        /\ pc # "exit"
        /\ Len(users) + Cardinality(Lacking) = Len(UserConfigs)
        /\ {users[i].username : i \in 1..Len(users)}
              = {UserConfigs[i].username : i \in Mapped}
        /\ \A i \in 1..Len(users) :
              /\ users[i].accountId = mapping.data[users[i].email]
              /\ users[i].accountId # ""
        /\ LoadedReport(mapping.data).found + Cardinality(Lacking) = Len(UserConfigs)
        /\ LoadedReport(mapping.data).found = Len(users)
        /\ LoadedReport(mapping.data).of = Len(UserConfigs)
        /\ \A r \in SubjectRequests :
              \E i \in 1..Len(users) : SubjectOf(log[r]) = users[i].accountId

\* C15 witness: a finished run whose mapping lacked user2 and user4, and which
\* granted a write operation on COLLAB to user3.
C15_Witness ==
    /\ pc = "done"
    /\ Cardinality(Lacking) = 2
    /\ {users[i].username : i \in 1..Len(users)} = {"merveille", "user1", "user3"}
    /\ \E g \in GrantsOn("COLLAB") :
          ReqSubject(log[g]) = "acc-user3" /\ ReqOps(log[g]) = <<WriteOps[1]>>

\* C16 (SpecClient): add_space_permission given an empty list, or a value
\* that is no list, raises the validation error and sends nothing; given a
\* list that holds an operation it sends its request.
C16_ValidationFailsFast ==
    cpc # "idle" =>
        /\ (call.passed # "list" \/ call.operations = <<>>) =>
              /\ cpc = "raised"
              /\ call.error = "ValueError"
              /\ log = <<>>
        /\ (call.passed = "list" /\ call.operations # <<>>) =>
              /\ call.error # "ValueError"
              /\ Len(log) = 1

\* C16 witness: add_space_permission was called with an empty list.
C16_Witness ==
    /\ cpc = "raised"
    /\ call.fn = "add_space_permission"
    /\ call.passed = "list"
    /\ call.operations = <<>>
    /\ log = <<>>

\* C17 as stated (SpecExec): _make_request sends its request once, to the
\* canonical URL; an answer whose status is not 2xx never returns a value
\* and raises an error that carries the verb, the URL, the status code and
\* the body; an answer with a 2xx status and no body returns the empty dict.
C17_ExecutorOutcomes ==
    (epc # "idle" /\ req.fn = "_make_request") =>
        LET a == req.answer
            canonical == Host \o Wiki \o GroupEndpoint
        IN  /\ Len(log) = 1
            /\ log[1] = SentRequest(req.method, canonical)
            /\ (a.answered /\ ~(a.status >= 200 /\ a.status < 300)) =>
                  /\ epc = "raised"
                  /\ ret.raised
                  /\ ret.error.method = req.method
                  /\ ret.error.url = canonical
                  /\ ret.error.has_response
                  /\ ret.error.status = a.status
                  /\ ret.error.body = a.content
            /\ (a.answered /\ a.status >= 200 /\ a.status < 300
                    /\ a.content = EmptyBody) =>
                  /\ epc = "returned"
                  /\ ret.type = "empty dict"

\* The logical names of the configured users.
LogicalNames ==
    Emails \cup {UserConfigs[i].username : i \in 1..Len(UserConfigs)}

\* C18 (Spec): the subject of every grant, restriction and membership
\* request is a non-empty account id that the mapping gives for a configured
\* user, never an email or a user name; grants name it as a 'user'; and a
\* configured user without an entry is the subject of no request.
C18_ResolvedSubjectsOnly ==
    \A r \in SubjectRequests :
        /\ SubjectOf(log[r]) # ""
        /\ \E i \in Mapped : SubjectOf(log[r]) = mapping.data[UserConfigs[i].email]
        /\ SubjectOf(log[r]) \notin LogicalNames
        /\ \A i \in Lacking :
              SubjectOf(log[r]) # PlatformAccount[UserConfigs[i].email]
        /\ log[r].kind = "space_permission" => log[r].body.subject.type = "user"

\* C18 witness: a finished run whose mapping lacked user1, and which added a
\* member to the group, granted on a space and restricted the page.
C18_Witness ==
    /\ pc = "done"
    /\ mapping.data["user1@example.com"] = ""
    /\ Positions("group_member") # {}
    /\ Positions("space_permission") # {}
    /\ \E r \in Positions("content_restriction") : SubjectOf(log[r]) = "acc-user2"

\* The operations sent for a subject on a space, in the order of the requests.
RECURSIVE OpsOf(_, _, _)
OpsOf(key, subject, n) ==
    IF n = 0 THEN <<>>
    ELSE IF IsGrant(log[n]) /\ log[n].target = key /\ ReqSubject(log[n]) = subject
         THEN OpsOf(key, subject, n - 1) \o ReqOps(log[n])
         ELSE OpsOf(key, subject, n - 1)
OpsSent(key, subject) == OpsOf(key, subject, Len(log))

IsPrefix(p, q) == Len(p) <= Len(q) /\ SubSeq(q, 1, Len(p)) = p

StandardAccounts == {StandardUsers[i].accountId : i \in 1..Len(StandardUsers)}

\* C19 (Spec): on RESTRICT administer is sent for the site admin alone and a
\* standard user is sent read and nothing else; on COLLAB the first loaded
\* standard user is sent read then administer, every other standard user read
\* then the five write operations, and the site admin nothing. In a finished
\* run that has a handle for the space and the users the grants need, all of
\* these were sent.
C19_PermissionPolicy ==
    /\ \A g \in Positions("space_permission") :
          /\ log[g].target \in SpaceKeys
          /\ ReqSubject(log[g]) \in StandardAccounts
                \/ (HasAdmin /\ log[g].target = "RESTRICT"
                             /\ ReqSubject(log[g]) = AdminUser.accountId)
    /\ \A i \in 1..Len(StandardUsers) :
          LET acct == StandardUsers[i].accountId
          IN  /\ IsPrefix(OpsSent("RESTRICT", acct), <<ReadOp>>)
              /\ i = 1 => IsPrefix(OpsSent("COLLAB", acct), <<ReadOp, AdministerOp>>)
              /\ i > 1 => IsPrefix(OpsSent("COLLAB", acct), <<ReadOp>> \o WriteOps)
              /\ (pc = "done" /\ GrantsDue("RESTRICT")) =>
                    OpsSent("RESTRICT", acct) = <<ReadOp>>
              /\ (pc = "done" /\ GrantsDue("COLLAB") /\ i = 1) =>
                    OpsSent("COLLAB", acct) = <<ReadOp, AdministerOp>>
              /\ (pc = "done" /\ GrantsDue("COLLAB") /\ i > 1) =>
                    OpsSent("COLLAB", acct) = <<ReadOp>> \o WriteOps
    /\ HasAdmin =>
          /\ OpsSent("COLLAB", AdminUser.accountId) = <<>>
          /\ IsPrefix(OpsSent("RESTRICT", AdminUser.accountId), <<ReadOp, AdministerOp>>)
          /\ (pc = "done" /\ GrantsDue("RESTRICT")) =>
                OpsSent("RESTRICT", AdminUser.accountId) = <<ReadOp, AdministerOp>>

\* C19 witness: a finished run with the admin and the four standard users
\* loaded and both spaces recorded, in which user1 was sent administer on
\* COLLAB and user4 the last write operation.
C19_Witness ==
    /\ pc = "done"
    /\ Len(users) = 5
    /\ SpaceKeys \subseteq DOMAIN spaces
    /\ OpsSent("COLLAB", "acc-user1") = <<ReadOp, AdministerOp>>
    /\ OpsSent("COLLAB", "acc-user4") = <<ReadOp>> \o WriteOps
    /\ OpsSent("RESTRICT", "acc-user4") = <<ReadOp>>

\* What create_group gave setup_groups, set against the answer it got.
GroupClassified ==
    groupResult # NoGroupResult =>
        /\ groupResult.result = "status 409" <=> groupResult.answer = "conflict"
        /\ groupResult.result = "raised" <=> groupResult.answer = "failure"
        /\ groupResult.result = "created" <=> groupResult.answer = "success"
        /\ pc # "exit"

\* After create_group, the loop over the standard users: entered if there is
\* one, and left only after its turn for the last of them.
GroupLoopRuns ==
    /\ pc = "create_group" =>
          /\ groupResult' # NoGroupResult
          /\ idx' = 1
          /\ pc' = IF Len(StandardUsers) > 0 THEN "add_to_group" ELSE "create_space"
    /\ (pc = "add_to_group" /\ pc' = "add_to_group") => idx' = idx + 1
    /\ (pc = "add_to_group" /\ pc' # "add_to_group") => idx = Len(StandardUsers)

\* C20 (Spec): create_group returns the 'already exists' result (status 409)
\* exactly when the create failed with a conflict or already-exists marker,
\* raises every other failure again and returns the answer of a create that
\* succeeded; whichever it is, setup_groups goes on to add every loaded
\* standard user to the group.
C20_GroupConflictClassified == []GroupClassified /\ [][GroupLoopRuns]_vars

\* C20 witness: the create of the group was raised again, and the fourth
\* standard user is being added after a membership request was issued.
C20_Witness ==
    /\ groupResult.result = "raised"
    /\ pc = "add_to_group"
    /\ idx = 4
    /\ Positions("group_member") # {}

\* C21 (Spec): whatever the lookups and the membership requests answer, the
\* calls of add_user_to_group_by_name are one per loaded standard user, in
\* loading order, none of them for the admin; a call that failed, or found
\* no group, is followed by the calls for the users after it; and a
\* membership request names a user that was attempted.
C21_MemberAttempts ==
    /\ Len(attempts) <= Len(StandardUsers)
    /\ \A i \in 1..Len(attempts) :
          /\ attempts[i] = StandardUsers[i].accountId
          /\ HasAdmin => attempts[i] # AdminUser.accountId
          /\ \A j \in 1..Len(attempts) : attempts[i] = attempts[j] => i = j
    /\ pc = "add_to_group" => Len(attempts) = idx - 1
    /\ pc \in {"setup_users", "create_group", "exit"} => attempts = <<>>
    /\ pc \notin {"setup_users", "create_group", "add_to_group", "exit"}
          => Len(attempts) = Len(StandardUsers)
    /\ Cardinality(Positions("group_member")) <= Len(attempts)
    /\ \A m \in Positions("group_member") :
          \E i \in 1..Len(attempts) : log[m].body.accountId = attempts[i]

\* C21 witness: a finished run with four standard users in which the calls
\* for the first three issued no membership request and the call for the
\* fourth did.
C21_Witness ==
    /\ pc = "done"
    /\ attempts = <<"acc-user1", "acc-user2", "acc-user3", "acc-user4">>
    /\ Cardinality(Positions("group_member")) = 1
    /\ \A m \in Positions("group_member") : log[m].body.accountId = "acc-user4"

\* C22 (Spec): a restriction request for anyone but the administrator comes
\* after the administrator's request, which the platform accepted; when the
\* administrator's request failed it is the only restriction request of the
\* run; and the subjects the page is restricted to, if any, include the
\* administrator.
C22_AdminConfirmedFirst ==
    /\ \A r \in Positions("content_restriction") :
          log[r].body.accountId # AdminAccount =>
              /\ \E a \in 1..(r - 1) :
                    /\ IsRestriction(log[a])
                    /\ log[a].target = log[r].target
                    /\ log[a].body.accountId = AdminAccount
              /\ restricted # <<>>
              /\ restricted[1] = AdminAccount
    /\ restricted # <<>> => restricted[1] = AdminAccount
    /\ (restricted = <<>> /\ pc # "restrict_page") =>
          /\ Cardinality(Positions("content_restriction")) <= 1
          /\ \A r \in Positions("content_restriction") :
                log[r].body.accountId = AdminAccount
    /\ Len(restricted) <= Cardinality(Positions("content_restriction"))

\* C22 witness: a finished run whose restriction request for the
\* administrator failed: it is the only one, and the page is restricted to
\* no one.
C22_Witness ==
    /\ pc = "done"
    /\ restricted = <<>>
    /\ Cardinality(Positions("content_restriction")) = 1
    /\ \A r \in Positions("content_restriction") : log[r].body.accountId = AdminAccount
    /\ Len(StandardUsers) >= 1

\* C23 (Spec): when no admin user was loaded, no permission request names
\* RESTRICT and no content restriction is requested; in a finished run that
\* has a handle for COLLAB the page was posted and, on COLLAB, the first
\* standard user was sent read then administer and every other standard user
\* read then the five write operations.
C23_NoAdminNoRestrict ==
    ~HasAdmin =>
        /\ GrantsOn("RESTRICT") = {}
        /\ Positions("content_restriction") = {}
        /\ restricted = <<>>
        /\ pc \notin {"restrict_admin", "restrict_read", "restrict_page"}
        /\ (pc = "done" /\ "COLLAB" \in DOMAIN spaces) =>
              /\ \E i \in 1..Len(log) : log[i] = PageRequest
              /\ \A i \in 1..Len(StandardUsers) :
                    OpsSent("COLLAB", StandardUsers[i].accountId) =
                        IF i = 1 THEN <<ReadOp, AdministerOp>>
                        ELSE <<ReadOp>> \o WriteOps

\* C23 witness: a finished run that loaded standard users and no admin and
\* has both spaces recorded: the page was posted, user1 was sent administer on
\* COLLAB, and nothing was asked on RESTRICT.
C23_Witness ==
    /\ pc = "done"
    /\ ~HasAdmin
    /\ Len(StandardUsers) >= 2
    /\ SpaceKeys \subseteq DOMAIN spaces
    /\ \E i \in 1..Len(log) : log[i] = PageRequest
    /\ OpsSent("COLLAB", StandardUsers[1].accountId) = <<ReadOp, AdministerOp>>
    /\ OpsSent("COLLAB", StandardUsers[2].accountId) = <<ReadOp>> \o WriteOps
    /\ GrantsOn("RESTRICT") = {}

=============================================================================
